---- MODULE Spec2Model ----
(***************************************************************************)
(* Model of the multi-device synchronisation engine of the media tracker:  *)
(* the conflict resolver (app/services/conflict_resolver.py), the lazy     *)
(* MediaItem creation (app/services/movies.py) and the sync action         *)
(* processor with its single-action and batch endpoints                    *)
(* (app/api/routers/sync.py), over the relational store of models.py.      *)
(*                                                                         *)
(* Timestamps are whole seconds.  Client timestamps are given in seconds,  *)
(* the branch of _normalize_client_timestamp that returns its argument.    *)
(* One authenticated user is modelled: every query of the processor        *)
(* filters on user.id, so rows of other users are never read or written.   *)
(* The change feed (_collect_changes and its endpoints) and the websocket  *)
(* notifier (app/services/notifications.py) are modelled over two users.   *)
(***************************************************************************)
EXTENDS Integers, Sequences, FiniteSets, TLC

(* ------------------------------ bounds --------------------------------- *)
MaxClock == 3
MaxBatch == 2
MaxActions == 2

(* ------------------------- program constants --------------------------- *)
CLOCK_SKEW_GRACE_SECONDS == 1

(* ------------------------------ values --------------------------------- *)
None == "None"
NoTime == -1
NoRating == -1

ImdbIds == {"tt1"}
Names == {"ann"}
ListIds == {"L1"}
GeneratedListId == "uuid"
AllListIds == ListIds \cup {GeneratedListId}

StatusValues == {"toWatch", "watched", "deleted", "custom"}

ConflictError == "Conflict: server has a newer version of this movie"

(* ------------------------------- store --------------------------------- *)
(* One field per table of models.py, restricted to the authenticated user. *)
(* A table is a function from the keys of its rows to the rows; recs is    *)
(* the set of Recommendation rows.                                         *)
NoRows == [k \in {} |-> None]

EmptyStore ==
    [ movies |-> NoRows, status |-> NoRows, watch |-> NoRows,
      recs |-> {}, people |-> NoRows, lists |-> NoRows ]

Movie(tmdb, omdb, lm) ==
    [tmdb_data |-> tmdb, omdb_data |-> omdb, media_type |-> "movie", last_modified |-> lm]

MovieStatus(st, cl) == [status |-> st, custom_list_id |-> cl]

WatchHistory(dw, r) == [date_watched |-> dw, my_rating |-> r]

Person(trusted, lm) == [is_trusted |-> trusted, last_modified |-> lm]

CustomList(nm, lm) == [name |-> nm, last_modified |-> lm]

(* a row of recommendations, with the name of the Person person_id names *)
Recommendation(imdb, person, dr, vote) ==
    [imdb_id |-> imdb, person |-> person, date_recommended |-> dr, vote_type |-> vote]

Put(f, k, v) == [x \in DOMAIN f \cup {k} |-> IF x = k THEN v ELSE f[x]]

Del(f, k) == [x \in DOMAIN f \ {k} |-> f[x]]

(* Store after user registration: create_user seeds the quick              *)
(* recommenders into people and nothing else exists.                       *)
SeededStore(t) == [EmptyStore EXCEPT !.people = [p \in Names |-> Person(FALSE, t)]]

(* CHECK and NOT NULL constraints of models.py that a flush enforces.      *)
check_rating_range(r) == r # NoRating /\ r >= 1 /\ r <= 10

check_status_values(st) == st \in StatusValues

(* ------------------------- conflict resolver --------------------------- *)
has_conflict_off_by_one(server_last_modified, client_timestamp) ==
    IF server_last_modified = NoTime \/ client_timestamp = NoTime
    THEN FALSE
    ELSE client_timestamp <= server_last_modified - CLOCK_SKEW_GRACE_SECONDS

has_conflict(server_last_modified, client_timestamp) ==
    IF server_last_modified = NoTime \/ client_timestamp = NoTime
    THEN FALSE
    ELSE client_timestamp < server_last_modified - CLOCK_SKEW_GRACE_SECONDS

serialize_movie(s, imdb) ==
    [ imdb_id |-> imdb,
      tmdb_data |-> s.movies[imdb].tmdb_data,
      omdb_data |-> s.movies[imdb].omdb_data,
      media_type |-> s.movies[imdb].media_type,
      last_modified |-> s.movies[imdb].last_modified,
      status |-> IF imdb \in DOMAIN s.status THEN s.status[imdb].status ELSE None,
      recommendations |-> {r \in s.recs : r.imdb_id = imdb},
      watch_history |-> IF imdb \in DOMAIN s.watch THEN <<s.watch[imdb]>> ELSE <<>> ]

(* check_conflict on the movie row imdb of session view s: <<>> is the     *)
(* None result, otherwise the one-element sequence holds the payload.      *)
check_conflict(s, imdb, client_timestamp) ==
    IF imdb \notin DOMAIN s.movies THEN <<>>
    ELSE IF ~has_conflict(s.movies[imdb].last_modified, client_timestamp) THEN <<>>
    ELSE << [ conflict |-> TRUE,
              server_last_modified |-> s.movies[imdb].last_modified,
              server_state |-> serialize_movie(s, imdb) ] >>

get_or_create_movie_without_status(s, imdb, tmdb, omdb, t) ==
    IF imdb \in DOMAIN s.movies
    THEN [sess |-> s, created |-> FALSE]
    ELSE [sess |-> [s EXCEPT !.movies = Put(@, imdb, Movie(tmdb, omdb, t))], created |-> TRUE]

(* ---------------------- lazy MediaItem creation ------------------------ *)
(* Result: the session view after the call (the new rows are flushed, not  *)
(* committed) and the created flag.                                        *)
get_or_create_movie_with_state(s, imdb, tmdb, omdb, t) ==
    IF imdb \in DOMAIN s.movies
    THEN LET m == s.movies[imdb]
             setT == tmdb /\ ~m.tmdb_data
             setO == omdb /\ ~m.omdb_data
             m2 == [m EXCEPT !.tmdb_data = IF setT THEN TRUE ELSE @,
                             !.omdb_data = IF setO THEN TRUE ELSE @,
                             !.last_modified = IF setT \/ setO THEN t ELSE @]
         IN [sess |-> [s EXCEPT !.movies = Put(@, imdb, m2)], created |-> FALSE]
    ELSE [sess |-> [s EXCEPT !.movies = Put(@, imdb, Movie(tmdb, omdb, t)),
                             !.status = Put(@, imdb, MovieStatus("toWatch", None))],
          created |-> TRUE]

get_or_create_movie(s, imdb, t) == get_or_create_movie_with_state(s, imdb, FALSE, FALSE, t).sess

(* --------------------------- sync responses ---------------------------- *)
SyncResponse(success, lm, err, conflict, state) ==
    [success |-> success, last_modified |-> lm, error |-> err,
     conflict |-> conflict, server_state |-> state]

Ok(lm) == SyncResponse(TRUE, lm, None, FALSE, <<>>)

Fail(err) == SyncResponse(FALSE, NoTime, err, FALSE, <<>>)

ConflictResponse(c) ==
    SyncResponse(FALSE, c[1].server_last_modified, ConflictError, TRUE, <<c[1].server_state>>)

(* Outcome of one _process_sync_action call: the session view and the      *)
(* committed store after it, the response and the emitted events.          *)
Outcome(s, d, resp, ev) == [sess |-> s, db |-> d, resp |-> resp, events |-> ev]

(* return without commit or rollback: the session keeps what was flushed   *)
Return(s, d, resp) == Outcome(s, d, resp, <<>>)

Commit_session_emptied(s, resp, ev) == Outcome(EmptyStore, s, resp, ev)

(* db.commit(): everything in the session's transaction becomes durable    *)
Commit(s, resp, ev) == Outcome(s, s, resp, ev)

(* db.rollback(): the session view falls back to the committed store       *)
Rollback(d, resp) == Outcome(d, d, resp, <<>>)

Raise_without_rollback(s, d, exc) == Return(s, d, Fail(exc))

(* except Exception, reached with session view s: db.rollback() and an    *)
(* error response                                                          *)
Raise(s, d, exc) == Rollback(d, Fail(exc))

(* -------------------------- action processor -------------------------- *)
(* The Recommendation lookups of the processor filter on                   *)
(* Recommendation.person == person_name.  models.py declares person as a   *)
(* plain read-only property of the class, not a column, so the comparison  *)
(* is the Python constant False and the query matches no row.              *)
RecommendationByPerson(s, imdb, person_name) == {r \in s.recs : FALSE}

AttributeErrorPerson == "property 'person' of 'Recommendation' object has no setter"

TypeErrorIsDefault == "'is_default' is an invalid keyword argument for Person"

IntegrityError == "IntegrityError"

AddRecommendation_conflict_checked(a, s, d, t) ==
    IF a.imdb_id = None THEN Return(s, d, Fail("Missing imdb_id"))
    ELSE LET g == get_or_create_movie_with_state(s, a.imdb_id, a.tmdb, FALSE, t)
             conflict == check_conflict(g.sess, a.imdb_id, a.timestamp)
             touched == [g.sess EXCEPT !.movies[a.imdb_id].last_modified = t]
             ev == IF g.created THEN << <<"movieAdded", a.imdb_id>> >>
                                ELSE << <<"movieUpdated", a.imdb_id>> >>
         IN IF conflict # <<>> THEN Return(g.sess, d, ConflictResponse(conflict))
            ELSE IF a.person # None THEN Raise(g.sess, d, AttributeErrorPerson)
            ELSE Commit(touched, Ok(t), ev)

AddRecommendation(a, s, d, t) ==
    IF a.imdb_id = None THEN Return(s, d, Fail("Missing imdb_id"))
    ELSE LET g == get_or_create_movie_with_state(s, a.imdb_id, a.tmdb, FALSE, t)
             existing == RecommendationByPerson(g.sess, a.imdb_id, a.person)
             touched == [g.sess EXCEPT !.movies[a.imdb_id].last_modified = t]
             ev == IF g.created THEN << <<"movieAdded", a.imdb_id>> >>
                                ELSE << <<"movieUpdated", a.imdb_id>> >>
         IN IF a.person # None /\ existing = {}
            THEN (* Recommendation(person=...) sets the read-only property *)
                 Raise(g.sess, d, AttributeErrorPerson)
            ELSE (* person absent, or an existing row updated in place *)
                 Commit([touched EXCEPT !.recs =
                            {IF r \in existing THEN [r EXCEPT !.date_recommended = t] ELSE r : r \in @}],
                        Ok(t), ev)

RemoveRecommendation(a, s, d, t) ==
    IF a.imdb_id = None \/ a.person = None THEN Return(s, d, Fail("Missing imdb_id/person"))
    ELSE LET recommendation == RecommendationByPerson(s, a.imdb_id, a.person)
             s2 == [s EXCEPT !.recs = @ \ recommendation]
         IN IF recommendation # {}
            THEN IF a.imdb_id \in DOMAIN s2.movies
                 THEN Commit([s2 EXCEPT !.movies[a.imdb_id].last_modified = t],
                             Ok(t), << <<"movieUpdated", a.imdb_id>> >>)
                 ELSE Commit(s2, Ok(t), <<>>)
            ELSE Return(s, d, Ok(t))

UpdateRecommendationVote(a, s, d, t) ==
    IF a.imdb_id = None \/ a.person = None THEN Return(s, d, Fail("Missing imdb_id/person"))
    ELSE LET s1 == get_or_create_movie(s, a.imdb_id, t)
             conflict == check_conflict(s1, a.imdb_id, a.timestamp)
             recommendation == RecommendationByPerson(s1, a.imdb_id, a.person)
         IN IF conflict # <<>> THEN Return(s1, d, ConflictResponse(conflict))
            ELSE IF recommendation # {}
            THEN Commit([s1 EXCEPT !.movies[a.imdb_id].last_modified = t,
                                   !.recs = {IF r \in recommendation
                                             THEN [r EXCEPT !.date_recommended = t]
                                             ELSE r : r \in @}],
                        Ok(t), << <<"movieUpdated", a.imdb_id>> >>)
            ELSE Rollback(d, Fail("Recommendation not found"))

MarkWatched(a, s, d, t) ==
    IF a.imdb_id = None THEN Return(s, d, Fail("Missing imdb_id"))
    ELSE LET g == get_or_create_movie_with_state(s, a.imdb_id, FALSE, FALSE, t)
             s1 == g.sess
             conflict == check_conflict(s1, a.imdb_id, a.timestamp)
             cl == IF a.imdb_id \in DOMAIN s1.status
                   THEN s1.status[a.imdb_id].custom_list_id ELSE None
             s2 == [s1 EXCEPT !.watch = Put(@, a.imdb_id, WatchHistory(t, a.rating)),
                              !.status = Put(@, a.imdb_id, MovieStatus("watched", cl)),
                              !.movies[a.imdb_id].last_modified = t]
             ev == IF g.created THEN << <<"movieAdded", a.imdb_id>> >>
                                ELSE << <<"movieUpdated", a.imdb_id>> >>
         IN IF conflict # <<>> THEN Return(s1, d, ConflictResponse(conflict))
            ELSE IF ~check_rating_range(a.rating) THEN Raise(s2, d, IntegrityError)
            ELSE Commit(s2, Ok(t), ev)

UpdateRating(a, s, d, t) ==
    IF a.imdb_id = None THEN Return(s, d, Fail("Missing imdb_id"))
    ELSE LET s1 == get_or_create_movie(s, a.imdb_id, t)
             conflict == check_conflict(s1, a.imdb_id, a.timestamp)
         IN IF conflict # <<>> THEN Return(s1, d, ConflictResponse(conflict))
            ELSE IF a.imdb_id \notin DOMAIN s1.watch
            THEN Return(s1, d, Fail("Watch history not found"))
            ELSE IF ~check_rating_range(a.rating) THEN Raise(s1, d, IntegrityError)
            ELSE Commit([s1 EXCEPT !.watch[a.imdb_id].my_rating = a.rating,
                                   !.movies[a.imdb_id].last_modified = t],
                        Ok(t), << <<"movieUpdated", a.imdb_id>> >>)

UpdateStatus_status_unchecked(a, s, d, t) ==
    IF a.imdb_id = None THEN Return(s, d, Fail("Missing imdb_id/status"))
    ELSE LET g == get_or_create_movie_with_state(s, a.imdb_id, FALSE, FALSE, t)
             s1 == g.sess
             conflict == check_conflict(s1, a.imdb_id, a.timestamp)
             s2 == [s1 EXCEPT !.status = Put(@, a.imdb_id, MovieStatus(a.status, None)),
                              !.movies[a.imdb_id].last_modified = t]
         IN IF conflict # <<>> THEN Return(s1, d, ConflictResponse(conflict))
            ELSE IF ~check_status_values(a.status) THEN Raise(s2, d, IntegrityError)
            ELSE Commit(s2, Ok(t), << <<"movieUpdated", a.imdb_id>> >>)

UpdateStatus_always_updated(a, s, d, t) ==
    IF a.imdb_id = None \/ a.status = None THEN Return(s, d, Fail("Missing imdb_id/status"))
    ELSE LET g == get_or_create_movie_with_state(s, a.imdb_id, FALSE, FALSE, t)
             s1 == g.sess
             conflict == check_conflict(s1, a.imdb_id, a.timestamp)
             cl == IF a.status = "custom" THEN a.custom_list_id ELSE None
             s2 == [s1 EXCEPT !.status = Put(@, a.imdb_id, MovieStatus(a.status, cl)),
                              !.movies[a.imdb_id].last_modified = t]
         IN IF conflict # <<>> THEN Return(s1, d, ConflictResponse(conflict))
            ELSE IF ~check_status_values(a.status) THEN Raise(s2, d, IntegrityError)
            ELSE Commit(s2, Ok(t), << <<"movieUpdated", a.imdb_id>> >>)

UpdateStatus(a, s, d, t) ==
    IF a.imdb_id = None \/ a.status = None THEN Return(s, d, Fail("Missing imdb_id/status"))
    ELSE LET g == get_or_create_movie_with_state(s, a.imdb_id, FALSE, FALSE, t)
             s1 == g.sess
             conflict == check_conflict(s1, a.imdb_id, a.timestamp)
             cl == IF a.status = "custom" THEN a.custom_list_id ELSE None
             s2 == [s1 EXCEPT !.status = Put(@, a.imdb_id, MovieStatus(a.status, cl)),
                              !.movies[a.imdb_id].last_modified = t]
             ev == IF a.status = "deleted" THEN << <<"movieDeleted", a.imdb_id>> >>
                   ELSE IF g.created THEN << <<"movieAdded", a.imdb_id>> >>
                   ELSE << <<"movieUpdated", a.imdb_id>> >>
         IN IF conflict # <<>> THEN Return(s1, d, ConflictResponse(conflict))
            ELSE IF ~check_status_values(a.status) THEN Raise(s2, d, IntegrityError)
            ELSE Commit(s2, Ok(t), ev)

AddPerson(a, s, d, t) ==
    IF a.name = None THEN Return(s, d, Fail("Missing person name"))
    ELSE IF a.name \in DOMAIN s.people THEN Return(s, d, Ok(t))
    ELSE (* Person(..., is_default=...) names a column models.py lacks *)
         Raise(s, d, TypeErrorIsDefault)

UpdatePerson(a, s, d, t) ==
    IF a.name \notin DOMAIN s.people THEN Return(s, d, Fail("Person not found"))
    ELSE Commit([s EXCEPT !.people[a.name] = Person(a.is_trusted, t)],
                Ok(t), << <<"peopleUpdated", None>> >>)

DeletePerson(a, s, d, t) ==
    IF a.name \in DOMAIN s.people
    THEN Commit([s EXCEPT !.people = Del(@, a.name),
                          !.recs = {r \in @ : r.person # a.name}],
                Ok(t), << <<"peopleUpdated", None>> >>)
    ELSE Return(s, d, Ok(t))

AddList(a, s, d, t) ==
    LET list_id == IF a.id # None THEN a.id ELSE GeneratedListId
        nm == IF a.name # None THEN a.name
              ELSE IF list_id \in DOMAIN s.lists THEN s.lists[list_id].name ELSE "New List"
    IN Commit([s EXCEPT !.lists = Put(@, list_id, CustomList(nm, t))],
              Ok(t), << <<"listUpdated", list_id>> >>)

UpdateList(a, s, d, t) ==
    IF a.id \notin DOMAIN s.lists THEN Return(s, d, Fail("List not found"))
    ELSE Commit([s EXCEPT !.lists[a.id] =
                    CustomList(IF a.name # None THEN a.name ELSE @.name, t)],
                Ok(t), << <<"listUpdated", a.id>> >>)

DeleteList_without_reset(a, s, d, t) ==
    IF a.id \in DOMAIN s.lists
    THEN Commit([s EXCEPT !.lists = Del(@, a.id)], Ok(t), << <<"listUpdated", a.id>> >>)
    ELSE Return(s, d, Ok(t))

DeleteList(a, s, d, t) ==
    IF a.id \in DOMAIN s.lists
    THEN Commit([s EXCEPT !.status = [m \in DOMAIN @ |->
                                        IF @[m].custom_list_id = a.id
                                        THEN MovieStatus("toWatch", None) ELSE @[m]],
                          !.lists = Del(@, a.id)],
                Ok(t), << <<"listUpdated", a.id>> >>)
    ELSE Return(s, d, Ok(t))

UnknownAction_accepted(a, s, d, t) == Return(s, d, Ok(t))

UnknownAction(a, s, d, t) == Return(s, d, Fail("Unknown action type: " \o a.action))

(* _process_sync_action(action, user, db) at server time t, on a session   *)
(* whose view is s over the committed store d.                             *)
_process_sync_action(a, s, d, t) ==
    CASE a.action = "addRecommendation" -> AddRecommendation(a, s, d, t)
      [] a.action = "removeRecommendation" -> RemoveRecommendation(a, s, d, t)
      [] a.action = "updateRecommendationVote" -> UpdateRecommendationVote(a, s, d, t)
      [] a.action = "markWatched" -> MarkWatched(a, s, d, t)
      [] a.action = "updateRating" -> UpdateRating(a, s, d, t)
      [] a.action = "updateStatus" -> UpdateStatus(a, s, d, t)
      [] a.action = "addPerson" -> AddPerson(a, s, d, t)
      [] a.action \in {"updatePerson", "updatePersonTrust"} -> UpdatePerson(a, s, d, t)
      [] a.action = "deletePerson" -> DeletePerson(a, s, d, t)
      [] a.action = "addList" -> AddList(a, s, d, t)
      [] a.action = "updateList" -> UpdateList(a, s, d, t)
      [] a.action = "deleteList" -> DeleteList(a, s, d, t)
      [] OTHER -> UnknownAction(a, s, d, t)

(* ------------------------------ requests ------------------------------- *)
SyncAction(kind, imdb, person, status, cl, rating, name, id, tmdb, trusted, ts) ==
    [action |-> kind, imdb_id |-> imdb, person |-> person, status |-> status,
     custom_list_id |-> cl, rating |-> rating, name |-> name, id |-> id,
     tmdb |-> tmdb, is_trusted |-> trusted, timestamp |-> ts]

(* a timestamp from before every server write, and the latest one *)
ClientTimes == {0, MaxClock}

OptName == Names \cup {None}

OptList == ListIds \cup {None}

MovieAction(kind, imdb, person, status, cl, rating, tmdb, ts) ==
    SyncAction(kind, imdb, person, status, cl, rating, None, None, tmdb, FALSE, ts)

PersonAction(kind, name, trusted) ==
    SyncAction(kind, None, None, None, None, NoRating, name, None, FALSE, trusted, 0)

ListAction(kind, id, name) ==
    SyncAction(kind, None, None, None, None, NoRating, name, id, FALSE, FALSE, 0)

(* The payloads a client may submit: every kind with and without its       *)
(* identifying fields, fresh and stale timestamps, valid and invalid       *)
(* ratings and states, and a kind the processor does not know.             *)
Actions ==
    {MovieAction("addRecommendation", i, p, None, None, NoRating, tm, 0) :
        i \in ImdbIds, p \in OptName, tm \in BOOLEAN}
    \cup {MovieAction("removeRecommendation", i, p, None, None, NoRating, FALSE, 0) :
        i \in ImdbIds, p \in OptName}
    \cup {MovieAction("updateRecommendationVote", i, p, None, None, NoRating, FALSE, ts) :
        i \in ImdbIds, p \in OptName, ts \in ClientTimes}
    \cup {MovieAction(k, i, None, None, None, r, FALSE, ts) :
        k \in {"markWatched", "updateRating"},
        i \in ImdbIds, r \in {NoRating, 7}, ts \in ClientTimes}
    \cup {MovieAction("updateStatus", i, None, st, None, NoRating, FALSE, ts) :
        i \in ImdbIds, st \in {None, "watched", "deleted", "bogus"}, ts \in ClientTimes}
    \cup {MovieAction("updateStatus", i, None, "custom", l, NoRating, FALSE, ts) :
        i \in ImdbIds, l \in ListIds, ts \in ClientTimes}
    \cup {MovieAction(k, None, p, "watched", None, 7, FALSE, MaxClock) :
        k \in {"addRecommendation", "removeRecommendation", "updateRecommendationVote",
               "markWatched", "updateRating", "updateStatus"}, p \in Names}
    \cup {PersonAction(k, nm, TRUE) :
        k \in {"addPerson", "updatePerson", "updatePersonTrust", "deletePerson"},
        nm \in OptName}
    \cup {ListAction(k, l, None) :
        k \in {"addList", "updateList", "deleteList"}, l \in OptList}
    \cup {ListAction("renameList", l, None) : l \in ListIds}

(* _broadcast_events: the notifications of one request, duplicates         *)
(* collapsed, ids sorted within a kind, in the order they are sent.        *)
IdOrder == <<"L1", "tt1", "uuid">>

SortedIds(S) == SelectSeq(IdOrder, LAMBDA x : x \in S)

IdsOf(events, kind) ==
    {events[i][2] : i \in {j \in DOMAIN events : events[j][1] = kind /\ events[j][2] # None}}

Notify(kind, ids) == [i \in DOMAIN ids |-> <<kind, ids[i]>>]

_broadcast_events_as_emitted(events) == events

_broadcast_events(events) ==
    Notify("movieAdded", SortedIds(IdsOf(events, "movieAdded")))
    \o Notify("movieUpdated", SortedIds(IdsOf(events, "movieUpdated")))
    \o Notify("movieDeleted", SortedIds(IdsOf(events, "movieDeleted")))
    \o (IF \E i \in DOMAIN events : events[i][1] = "peopleUpdated"
        THEN << <<"peopleUpdated", None>> >> ELSE <<>>)
    \o Notify("listUpdated", SortedIds(IdsOf(events, "listUpdated")))

(* ----------------------------- change feed ---------------------------- *)
(* What _collect_changes reads: the movies, people and custom_lists tables *)
(* of all users.  A table is the sequence of its rows in the order in      *)
(* which the store returns them to a query without ORDER BY.  A movie row  *)
(* carries the status of its MovieStatus row (movie.status.status).        *)
Users == {"u1", "u2"}

Row(kind, id, user_id, lm, st) ==
    [kind |-> kind, id |-> id, user_id |-> user_id, last_modified |-> lm, status |-> st]

NoTables == [movies |-> <<>>, people |-> <<>>, lists |-> <<>>]

AttributeErrorIsDefault == "'Person' object has no attribute 'is_default'"

NoOffset == -1

Min(a, b) == IF a <= b THEN a ELSE b

(* db.query(T).filter(T.user_id == user_id[, T.last_modified >= since]).all() *)
QueryChanged_strictly_after(table, user_id, since) ==
    SelectSeq(table, LAMBDA r :
        /\ r.user_id = user_id
        /\ since <= 0 \/ (r.last_modified # NoTime /\ r.last_modified > since))

QueryChanged(table, user_id, since) ==
    SelectSeq(table, LAMBDA r :
        /\ r.user_id = user_id
        /\ since <= 0 \/ (r.last_modified # NoTime /\ r.last_modified >= since))

(* row[1] of a change row: last_modified or 0.0 *)
ChangedAt(r) == IF r.last_modified = NoTime THEN 0 ELSE r.last_modified

(* list.sort(key=lambda row: row[1]): stable, rows of equal key keep the   *)
(* order they were appended in                                             *)
RECURSIVE SortByChangedAt(_)
SortByChangedAt(rows) ==
    IF rows = <<>> THEN <<>>
    ELSE LET x == rows[Len(rows)]
             sorted == SortByChangedAt(SubSeq(rows, 1, Len(rows) - 1))
         IN SelectSeq(sorted, LAMBDA r : ChangedAt(r) <= ChangedAt(x))
            \o <<x>>
            \o SelectSeq(sorted, LAMBDA r : ChangedAt(r) > ChangedAt(x))

(* change_rows after the sort: movies, then people, then lists appended *)
change_rows(tables, user_id, since) ==
    SortByChangedAt(QueryChanged(tables.movies, user_id, since)
                    \o QueryChanged(tables.people, user_id, since)
                    \o QueryChanged(tables.lists, user_id, since))

(* change_rows[offset : offset + limit] *)
Slice(rows, offset, limit) == SubSeq(rows, offset + 1, Min(offset + limit, Len(rows)))

OfKind(rows, kind) == SelectSeq(rows, LAMBDA r : r.kind = kind)

Ids(rows) == [i \in DOMAIN rows |-> rows[i].id]

(* _collect_changes at server time t.  _person_payload reads               *)
(* person.is_default, an attribute the Person class of models.py does not  *)
(* have: a page that selects a person raises instead of returning.         *)
_collect_changes(tables, user_id, since, limit, offset, t) ==
    LET rows == change_rows(tables, user_id, since)
        total == Len(rows)
        selected == Slice(rows, offset, limit)
        has_more == (offset + limit) < total
    IN IF OfKind(selected, "person") # <<>>
       THEN [raised |-> TRUE, error |-> AttributeErrorIsDefault,
             movies |-> <<>>, people |-> <<>>, lists |-> <<>>,
             deleted_movie_ids |-> <<>>, has_more |-> FALSE,
             next_offset |-> NoOffset, server_timestamp |-> NoTime]
       ELSE [raised |-> FALSE, error |-> None,
             movies |-> OfKind(selected, "movie"),
             people |-> OfKind(selected, "person"),
             lists |-> OfKind(selected, "list"),
             deleted_movie_ids |->
                 Ids(SelectSeq(selected, LAMBDA r : r.kind = "movie" /\ r.status = "deleted")),
             has_more |-> has_more,
             next_offset |-> IF has_more THEN offset + limit ELSE NoOffset,
             server_timestamp |-> t]

(* ------------------------------- state --------------------------------- *)
VARIABLES
    db,        \* the committed store
    sess,      \* the view of the request's Session: db plus flushed, uncommitted rows
    now,       \* time.time()
    pc,        \* "idle" | "batch" (in the loop of sync_batch) | "done" (response returned)
    n,         \* len(request.actions)
    results,   \* results of sync_batch, or the one response of sync_process_action
    aggregated_events,
    sent,      \* the notifications broadcast by the request
    action,    \* the action processed last (the loop variable of sync_batch)
    served,    \* number of actions processed since the start
    rejected,  \* history: items whose lazy creation belongs to a rejected action
    hcServer,  \* conflict resolver on its own: server_last_modified,
    hcClient,  \*   client_timestamp,
    hcPc,      \*   "input" | "checked"
    hcResult,  \*   and the value has_conflict returned
    workers,   \* concurrent requests: position, action, loaded view and response of each
    tables,    \* change feed: the movies, people and custom_lists tables of all users
    feedPc,    \*   "idle" | "returned" | "pulling" | "complete" | "failed"
    feedReq,   \*   user, since, limit and offset of the GET /sync/changes call
    feedRes,   \*   what the call returned, or that it raised
    pulled,    \*   the entities of the pages a paginating device has received so far
    pulledDeleted, \* and the deleted_movie_ids of those pages
    connections,   \* SyncNotifier.connections: user id -> set of websockets
    sockets,       \* every websocket: its state, the user it authenticated as, what it received
    bc,            \* the broadcast call in progress: user_id, message, connections still to send to
    broadcasts     \* number of broadcast calls so far

syncVars == <<db, sess, now, pc, n, results, aggregated_events, sent, action, served, rejected>>

resolverVars == <<hcServer, hcClient, hcPc, hcResult>>

NoAction == ListAction("none", None, None)

feedVars == <<tables, feedPc, feedReq, feedRes, pulled, pulledDeleted>>

notifierVars == <<connections, sockets, bc, broadcasts>>

offSync == <<hcServer, hcClient, hcPc, hcResult, workers, feedVars, notifierVars>>

vars == <<syncVars, resolverVars, workers, feedVars, notifierVars>>

Workers == {1, 2}

WorkerIdle == [pc |-> "idle", action |-> NoAction, view |-> EmptyStore, resp |-> Fail(None)]


NoRejected == [conflict |-> {}, error |-> {}]

ResolverIdle ==
    /\ hcServer = NoTime
    /\ hcClient = NoTime
    /\ hcPc = "input"
    /\ hcResult = FALSE

SyncInitOn(store) ==
    /\ now = 2
    /\ db = store
    /\ sess = db
    /\ pc = "idle"
    /\ n = 0
    /\ results = <<>>
    /\ aggregated_events = <<>>
    /\ sent = <<>>
    /\ action = NoAction
    /\ served = 0
    /\ rejected = NoRejected

NoWorkers == workers = [w \in Workers |-> WorkerIdle]

NoRequest == [user_id |-> None, since |-> 0, limit |-> 0, offset |-> 0]

NoResult == _collect_changes(NoTables, None, 0, 0, 0, NoTime)

FeedIdleOn(t) ==
    /\ tables = t
    /\ feedPc = "idle"
    /\ feedReq = NoRequest
    /\ feedRes = NoResult
    /\ pulled = <<>>
    /\ pulledDeleted = <<>>

FeedIdle == FeedIdleOn(NoTables)

MaxSockets == 2
MaxBroadcasts == 1

Sockets == 1 .. MaxSockets

NewSocket == [state |-> "new", user_id |-> None, inbox |-> <<>>, disconnects |-> 0]

NoSocket == 0

NoBroadcast ==
    [active |-> FALSE, user_id |-> None, message |-> <<>>, todo |-> {}, origin |-> NoSocket]

NotifierIdle ==
    /\ connections = [u \in {} |-> {}]
    /\ sockets = [h \in Sockets |-> NewSocket]
    /\ bc = NoBroadcast
    /\ broadcasts = 0

SyncInit == SyncInitOn(SeededStore(1))

Init == SyncInit /\ ResolverIdle /\ NoWorkers /\ FeedIdle /\ NotifierIdle

(* The uuid4 of addList is fresh: the payload without id is drawn only     *)
(* while the generated id is unused.                                       *)
Submittable(a, s) ==
    ~(a.action = "addList" /\ a.id = None /\ GeneratedListId \in DOMAIN s.lists)

(* History of the rejected actions of the running request: the items an    *)
(* action ending in conflict (resp. in an error) found absent from the     *)
(* committed store, until an action on the item succeeds.                  *)
Reject(rej, a, d, resp) ==
    IF a.imdb_id = None THEN rej
    ELSE IF resp.success
    THEN [conflict |-> rej.conflict \ {a.imdb_id}, error |-> rej.error \ {a.imdb_id}]
    ELSE IF a.imdb_id \in DOMAIN d.movies THEN rej
    ELSE IF resp.conflict THEN [rej EXCEPT !.conflict = @ \cup {a.imdb_id}]
    ELSE [rej EXCEPT !.error = @ \cup {a.imdb_id}]

(* time passes *)
Tick ==
    /\ now < MaxClock
    /\ now' = now + 1
    /\ UNCHANGED <<db, sess, pc, n, results, aggregated_events, sent, action, served, rejected>>
    /\ UNCHANGED offSync

(* POST /sync/batch arrives with k actions: get_db opens a new Session *)
BatchBegin(k) ==
    /\ pc = "idle"
    /\ served + k <= MaxActions
    /\ pc' = "batch"
    /\ n' = k
    /\ sess' = db
    /\ UNCHANGED <<db, now, results, aggregated_events, sent, action, served, rejected>>
    /\ UNCHANGED offSync

BatchStep_stops_after_failure(a) ==
    /\ pc = "batch"
    /\ Len(results) < n
    /\ results # <<>> => results[Len(results)].success
    /\ Submittable(a, sess)
    /\ LET o == _process_sync_action(a, sess, db, now)
       IN /\ db' = o.db
          /\ sess' = o.sess
          /\ results' = Append(results, o.resp)
          /\ aggregated_events' =
                IF o.resp.success /\ o.events # <<>>
                THEN aggregated_events \o o.events ELSE aggregated_events
          /\ rejected' = Reject(rejected, a, db, o.resp)
    /\ action' = a
    /\ served' = served + 1
    /\ UNCHANGED <<now, pc, n, sent>>
    /\ UNCHANGED offSync

BatchStep_broadcasting(a) ==
    /\ pc = "batch"
    /\ Len(results) < n
    /\ Submittable(a, sess)
    /\ LET o == _process_sync_action(a, sess, db, now)
       IN /\ db' = o.db
          /\ sess' = o.sess
          /\ results' = Append(results, o.resp)
          /\ aggregated_events' =
                IF o.resp.success /\ o.events # <<>>
                THEN aggregated_events \o o.events ELSE aggregated_events
          /\ sent' = IF o.resp.success THEN sent \o _broadcast_events(o.events) ELSE sent
          /\ rejected' = Reject(rejected, a, db, o.resp)
    /\ action' = a
    /\ served' = served + 1
    /\ UNCHANGED <<now, pc, n>>
    /\ UNCHANGED offSync

(* one iteration of the loop of sync_batch, on the next action a *)
BatchStep(a) ==
    /\ pc = "batch"
    /\ Len(results) < n
    /\ Submittable(a, sess)
    /\ LET o == _process_sync_action(a, sess, db, now)
       IN /\ db' = o.db
          /\ sess' = o.sess
          /\ results' = Append(results, o.resp)
          /\ aggregated_events' =
                IF o.resp.success /\ o.events # <<>>
                THEN aggregated_events \o o.events ELSE aggregated_events
          /\ rejected' = Reject(rejected, a, db, o.resp)
    /\ action' = a
    /\ served' = served + 1
    /\ UNCHANGED <<now, pc, n, sent>>
    /\ UNCHANGED offSync

BatchEnd_on_first_failure ==
    /\ pc = "batch"
    /\ Len(results) = n \/ (results # <<>> /\ ~results[Len(results)].success)
    /\ sent' = _broadcast_events(aggregated_events)
    /\ pc' = "done"
    /\ UNCHANGED <<db, sess, now, n, results, aggregated_events, action, served, rejected>>
    /\ UNCHANGED offSync

(* the loop is over: broadcast and return the response *)
BatchEnd ==
    /\ pc = "batch"
    /\ Len(results) = n
    /\ sent' = _broadcast_events(aggregated_events)
    /\ pc' = "done"
    /\ UNCHANGED <<db, sess, now, n, results, aggregated_events, action, served, rejected>>
    /\ UNCHANGED offSync

SingleAction_notifying_any_outcome(a) ==
    /\ pc = "idle"
    /\ served < MaxActions
    /\ Submittable(a, db)
    /\ LET o == _process_sync_action(a, db, db, now)
       IN /\ db' = o.db
          /\ sess' = o.sess
          /\ results' = <<o.resp>>
          /\ sent' = IF o.events # <<>> THEN _broadcast_events(o.events)
                     ELSE IF a.imdb_id # None THEN << <<"movieUpdated", a.imdb_id>> >>
                     ELSE <<>>
    /\ n' = 1
    /\ pc' = "done"
    /\ action' = a
    /\ served' = served + 1
    /\ UNCHANGED <<now, aggregated_events, rejected>>
    /\ UNCHANGED offSync

(* POST /sync: sync_process_action, one action in a Session of its own *)
SingleAction(a) ==
    /\ pc = "idle"
    /\ served < MaxActions
    /\ Submittable(a, db)
    /\ LET o == _process_sync_action(a, db, db, now)
       IN /\ db' = o.db
          /\ sess' = o.sess
          /\ results' = <<o.resp>>
          /\ sent' = IF o.resp.success /\ o.events # <<>>
                     THEN _broadcast_events(o.events) ELSE <<>>
    /\ n' = 1
    /\ pc' = "done"
    /\ action' = a
    /\ served' = served + 1
    /\ UNCHANGED <<now, aggregated_events, rejected>>
    /\ UNCHANGED offSync

(* get_db closes the Session after the response, which drops what was      *)
(* never committed; the locals of the request are gone                     *)
Close ==
    /\ pc = "done"
    /\ pc' = "idle"
    /\ sess' = db
    /\ n' = 0
    /\ results' = <<>>
    /\ aggregated_events' = <<>>
    /\ sent' = <<>>
    /\ rejected' = NoRejected
    /\ UNCHANGED <<db, now, action, served>>
    /\ UNCHANGED offSync

Next ==
    \/ Tick
    \/ \E k \in 0 .. MaxBatch : BatchBegin(k)
    \/ \E a \in Actions : BatchStep(a)
    \/ BatchEnd
    \/ \E a \in Actions : SingleAction(a)
    \/ Close

Spec == Init /\ [][Next]_vars

(* ------------------- the conflict resolver on its own ------------------ *)
MaxStamp == 7

Stamps == {NoTime} \cup (0 .. MaxStamp)

ResolverInit ==
    /\ SyncInit
    /\ NoWorkers
    /\ FeedIdle
    /\ NotifierIdle
    /\ hcServer \in Stamps
    /\ hcClient \in Stamps
    /\ hcPc = "input"
    /\ hcResult = FALSE

HasConflict ==
    /\ hcPc = "input"
    /\ hcResult' = has_conflict(hcServer, hcClient)
    /\ hcPc' = "checked"
    /\ UNCHANGED <<hcServer, hcClient, workers>>
    /\ UNCHANGED syncVars
    /\ UNCHANGED feedVars
    /\ UNCHANGED notifierVars

ResolverNext == HasConflict

SpecResolver == ResolverInit /\ [][ResolverNext]_vars

(* ------------------ requests interleaved at the store ------------------ *)
(* Two requests, each with one conflict-checked action on the same         *)
(* existing MediaItem, in Sessions of their own.  A request first runs its *)
(* queries and check_conflict on what it loaded; the rows it changed are   *)
(* written when its db.commit() flushes them.  Between the two another     *)
(* request may load and commit.                                            *)
ConcActions ==
    {MovieAction("updateStatus", i, None, st, None, NoRating, FALSE, ts) :
        i \in ImdbIds, st \in {"watched", "deleted"}, ts \in 0 .. MaxClock}
    \cup {MovieAction("updateRating", i, None, None, None, 7, FALSE, ts) :
        i \in ImdbIds, ts \in 0 .. MaxClock}

(* the store after a markWatched on tt1 at time t *)
WatchedStore(t) ==
    [SeededStore(1) EXCEPT !.movies = Put(@, "tt1", Movie(FALSE, FALSE, t)),
                           !.status = Put(@, "tt1", MovieStatus("watched", None)),
                           !.watch = Put(@, "tt1", WatchHistory(t, 5))]

ConcInit ==
    /\ SyncInitOn(WatchedStore(2))
    /\ ResolverIdle
    /\ NoWorkers
    /\ FeedIdle
    /\ NotifierIdle

ConcTick ==
    /\ now < MaxClock
    /\ now' = now + 1
    /\ UNCHANGED <<db, sess, pc, n, results, aggregated_events, sent, action, served, rejected>>
    /\ UNCHANGED offSync

(* request w runs the queries of its action and check_conflict; a conflict *)
(* or an error is the response, otherwise the changes wait for the commit  *)
Load(w, a) ==
    /\ workers[w].pc = "idle"
    /\ a.imdb_id \in DOMAIN db.movies
    /\ LET o == _process_sync_action(a, db, db, now)
       IN workers' = [workers EXCEPT ![w] =
              [pc |-> IF o.resp.success THEN "loaded" ELSE "done",
               action |-> a, view |-> db, resp |-> o.resp]]
    /\ UNCHANGED syncVars
    /\ UNCHANGED resolverVars
    /\ UNCHANGED feedVars
    /\ UNCHANGED notifierVars

(* db.commit() of request w: last_modified is time.time(), and the rows of *)
(* the item that the action changed on the loaded view are updated in the  *)
(* store as it is now                                                      *)
CommitWrite(w) ==
    /\ workers[w].pc = "loaded"
    /\ LET a == workers[w].action
           o == _process_sync_action(a, workers[w].view, workers[w].view, now)
           m == a.imdb_id
       IN /\ db' = [db EXCEPT
                      !.movies[m].last_modified = o.sess.movies[m].last_modified,
                      !.status[m] = IF a.action = "updateStatus" THEN o.sess.status[m] ELSE @,
                      !.watch[m] = IF a.action = "updateRating" THEN o.sess.watch[m] ELSE @]
          /\ workers' = [workers EXCEPT ![w].pc = "done", ![w].resp = o.resp]
    /\ sess' = db'
    /\ UNCHANGED <<now, pc, n, results, aggregated_events, sent, action, served, rejected>>
    /\ UNCHANGED resolverVars
    /\ UNCHANGED feedVars
    /\ UNCHANGED notifierVars

ConcNext ==
    \/ ConcTick
    \/ \E w \in Workers, a \in ConcActions : Load(w, a)
    \/ \E w \in Workers : CommitWrite(w)

SpecConc == ConcInit /\ [][ConcNext]_vars

(* --------------------- sync actions on a filled list ------------------- *)
(* the store after addList L1 and updateStatus tt1 to custom in L1, both   *)
(* at time t                                                               *)
ListedStore(t) ==
    [SeededStore(1) EXCEPT !.movies = Put(@, "tt1", Movie(FALSE, FALSE, t)),
                           !.status = Put(@, "tt1", MovieStatus("custom", "L1")),
                           !.lists = Put(@, "L1", CustomList("New List", t))]

ListedInit ==
    /\ SyncInitOn(ListedStore(1))
    /\ ResolverIdle
    /\ NoWorkers
    /\ FeedIdle
    /\ NotifierIdle

SpecListed == ListedInit /\ [][Next]_vars

(* ------------------ sync actions on a recommended movie ---------------- *)
(* the store after POST /movies/tt1/recommendations of the movies router,  *)
(* which resolves the person to person_id: ann recommends tt1 at time t    *)
RecommendedStore(t) ==
    [SeededStore(1) EXCEPT !.movies = Put(@, "tt1", Movie(FALSE, FALSE, t)),
                           !.status = Put(@, "tt1", MovieStatus("toWatch", None)),
                           !.recs = {Recommendation("tt1", "ann", t, TRUE)}]

RecommendedInit ==
    /\ SyncInitOn(RecommendedStore(1))
    /\ ResolverIdle
    /\ NoWorkers
    /\ FeedIdle
    /\ NotifierIdle

SpecRecommended == RecommendedInit /\ [][Next]_vars

(* ------------------------ deleteList on filled lists ------------------- *)
(* Stores in which list L1 holds tt1, as a custom entry or as an entry     *)
(* that markWatched has since marked watched, a second list may exist, and *)
(* tt2 is in any state updateStatus and markWatched can leave it in.       *)
CascadeStatuses ==
    {MovieStatus("toWatch", None), MovieStatus("watched", None), MovieStatus("deleted", None),
     MovieStatus("custom", "L1"), MovieStatus("watched", "L1"),
     MovieStatus("custom", GeneratedListId)}

CascadeStores ==
    {[SeededStore(1) EXCEPT
        !.movies = Put(Put(@, "tt1", Movie(FALSE, FALSE, 1)), "tt2", Movie(FALSE, FALSE, 1)),
        !.status = Put(Put(@, "tt1", s1), "tt2", s2),
        !.lists = [l \in ls |-> CustomList("New List", 1)]] :
     s1 \in {MovieStatus("custom", "L1"), MovieStatus("watched", "L1")},
     s2 \in CascadeStatuses,
     ls \in {{"L1"}, {"L1", GeneratedListId}}}

CascadeInit ==
    /\ \E store \in CascadeStores : SyncInitOn(store)
    /\ ResolverIdle
    /\ NoWorkers
    /\ FeedIdle
    /\ NotifierIdle

(* POST /sync with a deleteList action *)
DeleteListRequest(a) == a.action = "deleteList" /\ SingleAction(a)

CascadeNext ==
    \/ \E a \in Actions : DeleteListRequest(a)
    \/ Close

SpecCascade == CascadeInit /\ [][CascadeNext]_vars

(* ------------------------ the change feed on its own ------------------- *)
MaxModified == 2
MaxLimit == 3
MaxOffset == 5

LEGACY_LIMIT == 10000

(* Stores of two registered users.  u1 has two movies, two people and a    *)
(* list; tt2 was last written at time 2, the others at any time.           *)
(* u2 has rows under the same imdb id and name.  The two movies and the    *)
(* two people of u1 may come back from the store in either order.          *)
FeedStores ==
    { [ movies |-> IF mo THEN <<m1, Row("movie", "tt1", "u2", 2, "toWatch"), m2>>
                         ELSE <<m2, Row("movie", "tt1", "u2", 2, "toWatch"), m1>>,
        people |-> IF po THEN <<p1, p2, Row("person", "ann", "u2", 1, None)>>
                         ELSE <<p2, p1, Row("person", "ann", "u2", 1, None)>>,
        lists |-> <<Row("list", "L2", "u2", 2, None), l1>> ] :
        m1 \in {Row("movie", "tt1", "u1", lm, st) :
                    lm \in 1 .. MaxModified, st \in {"toWatch", "deleted"}},
        m2 \in {Row("movie", "tt2", "u1", 2, st) : st \in {"watched", "deleted"}},
        p1 \in {Row("person", "ann", "u1", lm, None) : lm \in 1 .. MaxModified},
        p2 \in {Row("person", "bob", "u1", lm, None) : lm \in 1 .. MaxModified},
        l1 \in {Row("list", "L1", "u1", lm, None) : lm \in 1 .. MaxModified},
        mo \in BOOLEAN, po \in BOOLEAN }

FeedInit ==
    /\ SyncInit
    /\ ResolverIdle
    /\ NoWorkers
    /\ NotifierIdle
    /\ \E t \in FeedStores : FeedIdleOn(t)

Request(user_id, since, limit, offset) ==
    [user_id |-> user_id, since |-> since, limit |-> limit, offset |-> offset]

Call(req) ==
    _collect_changes(tables, req.user_id, req.since, req.limit, req.offset, now)

Entities(res) == res.movies \o res.people \o res.lists

Touch(table, rows, t) ==
    [i \in DOMAIN table |->
        IF \E j \in DOMAIN rows : rows[j] = table[i]
        THEN [table[i] EXCEPT !.last_modified = t] ELSE table[i]]

sync_get_changes_marking_served(user_id, since, limit, offset) ==
    /\ feedPc = "idle"
    /\ feedReq' = Request(user_id, since, limit, offset)
    /\ feedRes' = Call(feedReq')
    /\ feedPc' = "returned"
    /\ tables' = [movies |-> Touch(tables.movies, feedRes'.movies, now),
                  people |-> tables.people,
                  lists |-> Touch(tables.lists, feedRes'.lists, now)]
    /\ UNCHANGED <<pulled, pulledDeleted>>
    /\ UNCHANGED <<syncVars, resolverVars, workers, notifierVars>>

(* GET /sync/changes?since=&limit=&offset= *)
sync_get_changes(user_id, since, limit, offset) ==
    /\ feedPc = "idle"
    /\ feedReq' = Request(user_id, since, limit, offset)
    /\ feedRes' = Call(feedReq')
    /\ feedPc' = "returned"
    /\ UNCHANGED <<tables, pulled, pulledDeleted>>
    /\ UNCHANGED <<syncVars, resolverVars, workers, notifierVars>>

(* GET /sync?since=, the endpoint of older clients: one page of everything *)
sync_get_changes_legacy(user_id, since) ==
    /\ feedPc = "idle"
    /\ feedReq' = Request(user_id, since, LEGACY_LIMIT, 0)
    /\ feedRes' = Call(feedReq')
    /\ feedPc' = "returned"
    /\ UNCHANGED <<tables, pulled, pulledDeleted>>
    /\ UNCHANGED <<syncVars, resolverVars, workers, notifierVars>>

(* a device starts to pull the changes since its watermark, page by page *)
PullBegin(user_id, since, limit) ==
    /\ feedPc = "idle"
    /\ feedPc' = "pulling"
    /\ feedReq' = Request(user_id, since, limit, 0)
    /\ UNCHANGED <<tables, feedRes, pulled, pulledDeleted>>
    /\ UNCHANGED <<syncVars, resolverVars, workers, notifierVars>>

(* its next GET /sync/changes: it keeps the page and goes on at next_offset *)
(* while has_more; a call that raised ends the pull                        *)
PullPage ==
    /\ feedPc = "pulling"
    /\ LET res == Call(feedReq)
       IN /\ feedRes' = res
          /\ pulled' = pulled \o Entities(res)
          /\ pulledDeleted' = pulledDeleted \o res.deleted_movie_ids
          /\ feedPc' = IF res.raised THEN "failed"
                       ELSE IF res.has_more THEN "pulling" ELSE "complete"
          /\ feedReq' = IF res.has_more THEN [feedReq EXCEPT !.offset = res.next_offset]
                        ELSE feedReq
    /\ UNCHANGED tables
    /\ UNCHANGED <<syncVars, resolverVars, workers, notifierVars>>

(* the response is delivered; the next request may come *)
FeedDone ==
    /\ feedPc \in {"returned", "complete", "failed"}
    /\ feedPc' = "idle"
    /\ feedReq' = NoRequest
    /\ feedRes' = NoResult
    /\ pulled' = <<>>
    /\ pulledDeleted' = <<>>
    /\ UNCHANGED tables
    /\ UNCHANGED <<syncVars, resolverVars, workers, notifierVars>>

FeedNext ==
    \/ \E u \in Users, since \in 0 .. MaxModified + 1, limit \in 1 .. MaxLimit,
          offset \in 0 .. MaxOffset : sync_get_changes(u, since, limit, offset)
    \/ \E u \in Users, since \in 0 .. MaxModified + 1 : sync_get_changes_legacy(u, since)
    \/ \E u \in Users, since \in 0 .. MaxModified + 1, limit \in 1 .. MaxLimit :
          PullBegin(u, since, limit)
    \/ PullPage
    \/ FeedDone

SpecFeed == FeedInit /\ [][FeedNext]_vars

(* ------------------------ the notifier on its own ---------------------- *)
(* A websocket is "new" until /ws/sync has authenticated it, "accepted"    *)
(* while connect awaits websocket.accept(), then "open"; "closed" once the *)
(* client has gone and receive_text is about to raise in the endpoint;     *)
(* "lost" when the client went during connect, so that the greeting raised *)
(* and the endpoint ended with the socket registered; "ended" after the    *)
(* endpoint has returned.  disconnects counts the calls of                 *)
(* SyncNotifier.disconnect for the websocket.                              *)
Greeting == [type |-> "connected", id |-> None, to |-> None]

(* the message of notify_movie_change, notify_people_change, ...; to is    *)
(* the user_id the broadcast was called with                               *)
Message(type, id, user_id) == [type |-> type, id |-> id, to |-> user_id]

Messages(user_id) ==
    {Message("movieUpdated", "tt1", user_id), Message("peopleUpdated", None, user_id)}

(* self.connections.setdefault(user_id, set()).add(websocket) *)
Register(conns, user_id, h) ==
    [u \in DOMAIN conns \cup {user_id} |->
        IF u = user_id
        THEN (IF u \in DOMAIN conns THEN conns[u] ELSE {}) \cup {h}
        ELSE conns[u]]

disconnect_keeping_the_key(conns, user_id, h) ==
    IF user_id \notin DOMAIN conns THEN conns
    ELSE [conns EXCEPT ![user_id] = @ \ {h}]

(* SyncNotifier.disconnect *)
disconnect(conns, user_id, h) ==
    IF user_id \notin DOMAIN conns THEN conns
    ELSE IF conns[user_id] \ {h} = {}
    THEN [u \in DOMAIN conns \ {user_id} |-> conns[u]]
    ELSE [conns EXCEPT ![user_id] = @ \ {h}]

(* /ws/sync with a token that names no user: close(1008) *)
WsReject(h) ==
    /\ sockets[h].state = "new"
    /\ sockets' = [sockets EXCEPT ![h].state = "ended"]
    /\ UNCHANGED <<connections, bc, broadcasts>>
    /\ UNCHANGED <<syncVars, resolverVars, workers, feedVars>>

(* /ws/sync with the token of user_id: SyncNotifier.connect is called and  *)
(* awaits websocket.accept()                                               *)
WsAccept(h, user_id) ==
    /\ sockets[h].state = "new"
    /\ sockets' = [sockets EXCEPT ![h].state = "accepted", ![h].user_id = user_id]
    /\ UNCHANGED <<connections, bc, broadcasts>>
    /\ UNCHANGED <<syncVars, resolverVars, workers, feedVars>>

WsConnect_without_greeting(h, user_id) ==
    /\ sockets[h].state = "accepted"
    /\ sockets[h].user_id = user_id
    /\ connections' = Register(connections, user_id, h)
    /\ sockets' = [sockets EXCEPT ![h].state = "open"]
    /\ UNCHANGED <<bc, broadcasts>>
    /\ UNCHANGED <<syncVars, resolverVars, workers, feedVars>>

(* accept has returned: connect registers the websocket and sends the      *)
(* greeting; the endpoint then waits in receive_text                       *)
WsConnect(h, user_id) ==
    /\ sockets[h].state = "accepted"
    /\ sockets[h].user_id = user_id
    /\ connections' = Register(connections, user_id, h)
    /\ sockets' = [sockets EXCEPT ![h].state = "open", ![h].inbox = Append(@, Greeting)]
    /\ UNCHANGED <<bc, broadcasts>>
    /\ UNCHANGED <<syncVars, resolverVars, workers, feedVars>>

(* the same when the client goes between accept and the greeting:          *)
(* send_json raises out of connect, after the socket was registered        *)
WsConnectLost(h, user_id) ==
    /\ sockets[h].state = "accepted"
    /\ sockets[h].user_id = user_id
    /\ connections' = Register(connections, user_id, h)
    /\ sockets' = [sockets EXCEPT ![h].state = "lost"]
    /\ UNCHANGED <<bc, broadcasts>>
    /\ UNCHANGED <<syncVars, resolverVars, workers, feedVars>>

(* the client closes the connection, or reading from it fails *)
ClientClose(h) ==
    /\ sockets[h].state = "open"
    /\ sockets' = [sockets EXCEPT ![h].state = "closed"]
    /\ UNCHANGED <<connections, bc, broadcasts>>
    /\ UNCHANGED <<syncVars, resolverVars, workers, feedVars>>

WsDisconnect_breaking_iteration(h) ==
    /\ sockets[h].state = "closed"
    /\ connections' = disconnect(connections, sockets[h].user_id, h)
    /\ sockets' = [sockets EXCEPT ![h].state = "ended", ![h].disconnects = @ + 1]
    /\ bc' = IF bc.active /\ bc.user_id = sockets[h].user_id THEN NoBroadcast ELSE bc
    /\ UNCHANGED broadcasts
    /\ UNCHANGED <<syncVars, resolverVars, workers, feedVars>>

(* receive_text raises in the endpoint: SyncNotifier.disconnect *)
WsDisconnect(h) ==
    /\ sockets[h].state = "closed"
    /\ connections' = disconnect(connections, sockets[h].user_id, h)
    /\ sockets' = [sockets EXCEPT ![h].state = "ended", ![h].disconnects = @ + 1]
    /\ UNCHANGED <<bc, broadcasts>>
    /\ UNCHANGED <<syncVars, resolverVars, workers, feedVars>>

Snapshot_of_every_user(conns, user_id) == UNION {conns[u] : u \in DOMAIN conns}

(* list(self.connections.get(user_id, set())): the connections the loop    *)
(* will take, in the arbitrary order of a set                              *)
Snapshot(conns, user_id) == IF user_id \in DOMAIN conns THEN conns[user_id] ELSE {}

(* The websocket of the device whose request makes the broadcast, if it    *)
(* has one: the request carries the user and nothing of the device.        *)
Origins(user_id) ==
    {NoSocket} \cup {h \in Sockets : sockets[h].state = "open" /\ sockets[h].user_id = user_id}

(* SyncNotifier.broadcast(user_id, message) is called *)
BroadcastBegin(user_id, message) ==
    /\ ~bc.active
    /\ broadcasts < MaxBroadcasts
    /\ broadcasts' = broadcasts + 1
    /\ \E o \in Origins(user_id) :
          bc' = [active |-> TRUE, user_id |-> user_id, message |-> message,
                 todo |-> Snapshot(connections, user_id), origin |-> o]
    /\ UNCHANGED <<connections, sockets>>
    /\ UNCHANGED <<syncVars, resolverVars, workers, feedVars>>

BroadcastSend_raising(h) ==
    /\ bc.active
    /\ h \in bc.todo
    /\ IF sockets[h].state = "open"
       THEN /\ sockets' = [sockets EXCEPT ![h].inbox = Append(@, bc.message)]
            /\ bc' = [bc EXCEPT !.todo = @ \ {h}]
       ELSE /\ UNCHANGED sockets
            /\ bc' = NoBroadcast
    /\ UNCHANGED <<connections, broadcasts>>
    /\ UNCHANGED <<syncVars, resolverVars, workers, feedVars>>

(* one iteration of its loop: send_json to the next connection of the      *)
(* snapshot, and disconnect it when the send raises                        *)
BroadcastSend(h) ==
    /\ bc.active
    /\ h \in bc.todo
    /\ IF sockets[h].state = "open"
       THEN /\ sockets' = [sockets EXCEPT ![h].inbox = Append(@, bc.message)]
            /\ UNCHANGED connections
       ELSE /\ connections' = disconnect(connections, bc.user_id, h)
            /\ sockets' = [sockets EXCEPT ![h].disconnects = @ + 1]
    /\ bc' = [bc EXCEPT !.todo = @ \ {h}]
    /\ UNCHANGED broadcasts
    /\ UNCHANGED <<syncVars, resolverVars, workers, feedVars>>

(* the loop is over *)
BroadcastEnd ==
    /\ bc.active
    /\ bc.todo = {}
    /\ bc' = NoBroadcast
    /\ UNCHANGED <<connections, sockets, broadcasts>>
    /\ UNCHANGED <<syncVars, resolverVars, workers, feedVars>>

NotifierNext ==
    \/ \E h \in Sockets : WsReject(h)
    \/ \E h \in Sockets, u \in Users : WsAccept(h, u)
    \/ \E h \in Sockets, u \in Users : WsConnect(h, u)
    \/ \E h \in Sockets, u \in Users : WsConnectLost(h, u)
    \/ \E h \in Sockets : ClientClose(h)
    \/ \E h \in Sockets : WsDisconnect(h)
    \/ \E u \in Users : \E m \in Messages(u) : BroadcastBegin(u, m)
    \/ \E h \in Sockets : BroadcastSend(h)
    \/ BroadcastEnd

SpecNotifier == Init /\ [][NotifierNext]_vars

(* ------------------------------ properties ----------------------------- *)
(* an action was processed in this step, and the response it produced *)
Processed == served' = served + 1

Resp == results'[Len(results')]

LastResult == results[Len(results)]

Exceptions == {AttributeErrorPerson, TypeErrorIsDefault, IntegrityError}

ConflictChecked == {"updateRecommendationVote", "markWatched", "updateRating", "updateStatus"}

(* every row of the committed store d is in the session view s *)
Includes(s, d) ==
    /\ \A tbl \in {"movies", "status", "watch", "people", "lists"} :
          \A k \in DOMAIN d[tbl] : k \in DOMAIN s[tbl] /\ s[tbl][k] = d[tbl][k]
    /\ d.recs \subseteq s.recs

(* the loop of sync_batch can take its next action *)
LoopGoesOn == pc = "batch" /\ Len(results) < n => ENABLED (\E a \in Actions : BatchStep(a))

(* C1: when a conflict-checked action returns conflict=true, the response  *)
(* carries the item's server last_modified and its serialized snapshot,    *)
(* and the store is as before the action: the committed store is not       *)
(* changed by that step, and an item the action found absent is not in the *)
(* store after a later commit of the same batch either.                    *)
C1_ConflictLeavesStore ==
    /\ [][Processed /\ Resp.conflict =>
            /\ action'.action \in ConflictChecked
            /\ Resp.last_modified = sess'.movies[action'.imdb_id].last_modified
            /\ Resp.server_state = <<serialize_movie(sess', action'.imdb_id)>>
            /\ db' = db]_vars
    /\ [](rejected.conflict \cap DOMAIN db.movies = {})

(* C2: has_conflict is true exactly when both timestamps are present and   *)
(* the client timestamp is below the server's last_modified minus 1        *)
(* second; equal to it there is no conflict, and with a timestamp absent   *)
(* there is none.                                                          *)
C2_HasConflictExact ==
    hcPc = "checked" =>
        /\ hcResult = (hcServer # NoTime /\ hcClient # NoTime /\ hcClient + 1 < hcServer)
        /\ (hcServer # NoTime /\ hcClient = hcServer - 1 => ~hcResult)
        /\ (hcServer = NoTime \/ hcClient = NoTime => ~hcResult)

C2_Witness ==
    hcPc = "checked" /\ hcServer = 5 /\ hcClient = 4 /\ ~hcResult

(* C3 as claimed: an addRecommendation whose client timestamp is older     *)
(* than the item's last_modified minus the grace returns conflict=true and *)
(* changes neither the Recommendation nor the MediaItem.                   *)
C3_AddRecommendationChecked ==
    [][(/\ Processed
        /\ action'.action = "addRecommendation"
        /\ action'.imdb_id \in DOMAIN sess.movies
        /\ action'.timestamp < sess.movies[action'.imdb_id].last_modified - CLOCK_SKEW_GRACE_SECONDS)
       => Resp.conflict /\ db' = db]_vars

(* C3 amended: addRecommendation is not conflict-checked: whatever its     *)
(* client timestamp, its response never has conflict=true, and when it     *)
(* succeeds the item is in the store with last_modified the server time.   *)
C3_AddRecommendationUnchecked ==
    [][Processed /\ action'.action = "addRecommendation" =>
          /\ ~Resp.conflict
          /\ Resp.success =>
                /\ action'.imdb_id \in DOMAIN db'.movies
                /\ db'.movies[action'.imdb_id].last_modified = now
                /\ Resp.last_modified = now]_vars

C3_Witness ==
    /\ pc = "done" /\ n = 1
    /\ action.action = "addRecommendation" /\ action.timestamp = 0
    /\ results[1].success
    /\ sent = << <<"movieUpdated", "tt1">> >>
    /\ db.movies["tt1"].last_modified = now

(* C4: when two requests with conflict-checked actions on the same item    *)
(* interleave at the store, every action that commits passes the conflict  *)
(* check against the item's last_modified as it is at that commit: none    *)
(* commits over a write newer than its client timestamp by more than the   *)
(* grace.                                                                  *)
C4_CheckedAtCommit ==
    [][\A w \in Workers :
          workers[w].pc = "loaded" /\ workers'[w].pc = "done" =>
             ~has_conflict(db.movies[workers[w].action.imdb_id].last_modified,
                           workers[w].action.timestamp)]_vars

(* C5: a batch of n actions returns exactly n results, one appended per    *)
(* action in order, whatever the outcomes are; the loop never ends before  *)
(* the last action.                                                        *)
C5_OneResultPerAction ==
    /\ [](pc = "batch" => Len(results) <= n)
    /\ [](pc = "done" => Len(results) = n)
    /\ [][pc = "batch" /\ Processed =>
            /\ Len(results') = Len(results) + 1
            /\ \A i \in DOMAIN results : results'[i] = results[i]
            /\ Resp = _process_sync_action(action', sess, db, now).resp]_vars

C5_Witness ==
    /\ pc = "done" /\ n = 2 /\ Len(results) = 2
    /\ results[1].conflict
    /\ results[2].error = IntegrityError

(* C6: in a batch an action that fails or raises leaves the committed      *)
(* store, with the effects of the earlier actions, as it is; after a       *)
(* failed action the loop takes the next one, and that action succeeds     *)
(* whenever it would succeed on the committed store alone.                 *)
C6_IndependentActions ==
    /\ [][Processed /\ ~Resp.success => db' = db]_vars
    /\ [][(pc = "batch" /\ Processed /\ results # <<>> /\ ~LastResult.success
           /\ _process_sync_action(action', db, db, now).resp.success)
          => Resp.success]_vars
    /\ []LoopGoesOn

C6_Witness ==
    /\ pc = "batch" /\ Len(results) = 2
    /\ results[1].success
    /\ aggregated_events = << <<"movieAdded", "tt1">> >>
    /\ results[2].error = IntegrityError
    /\ "tt1" \in DOMAIN db.movies

(* C7: the actions of a batch are applied one after the other, each on a   *)
(* view that holds everything committed so far: a markWatched followed in  *)
(* the same batch by an updateRating on the same item never ends in        *)
(* "Watch history not found".                                              *)
C7_LaterActionsSeeEarlier ==
    /\ [](pc = "batch" => Includes(sess, db))
    /\ [][(/\ pc = "batch" /\ Processed /\ results # <<>>
           /\ action.action = "markWatched" /\ LastResult.success
           /\ action'.action = "updateRating" /\ action'.imdb_id = action.imdb_id)
          => Resp.error # "Watch history not found"]_vars

C7_Witness ==
    /\ pc = "batch" /\ Len(results) = 2
    /\ aggregated_events = << <<"movieAdded", "tt1">>, <<"movieUpdated", "tt1">> >>
    /\ action.action = "updateRating"
    /\ results[2].success
    /\ db.watch["tt1"].my_rating = 7

(* C8: an action whose result is success=false with conflict=false leaves  *)
(* the store as before: the committed store is not changed by that step,   *)
(* and an item the action found absent is not in the store after a later   *)
(* commit of the same batch either.                                        *)
C8_ErrorLeavesStore ==
    /\ [][Processed /\ ~Resp.success /\ ~Resp.conflict => db' = db]_vars
    /\ [](rejected.error \cap DOMAIN db.movies = {})

(* C9: when the store raises during an action, the exception is caught:    *)
(* the result is success=false with the error string and no conflict, all  *)
(* that the session had not committed is rolled back, the committed store  *)
(* is unchanged, no event is kept, and the loop goes on with the next      *)
(* action.                                                                 *)
C9_RaiseIsRolledBack ==
    /\ [][Processed /\ Resp.error \in Exceptions =>
            /\ ~Resp.success /\ ~Resp.conflict
            /\ db' = db
            /\ sess' = db
            /\ aggregated_events' = aggregated_events
            /\ pc = "batch" => pc' = "batch" /\ Len(results') = Len(results) + 1]_vars
    /\ []LoopGoesOn

C9_Witness ==
    /\ pc = "batch" /\ Len(results) = 2
    /\ results[1].error = IntegrityError
    /\ results[2].success
    /\ action.action = "markWatched"
    /\ aggregated_events = << <<"movieAdded", "tt1">> >>

(* C10 as claimed: every kind rejects a payload without its identifying    *)
(* field with success=false and an error, mutating nothing and emitting    *)
(* nothing.                                                                *)
MovieKinds ==
    {"addRecommendation", "removeRecommendation", "updateRecommendationVote",
     "markWatched", "updateRating", "updateStatus"}

PersonKinds == {"addPerson", "updatePerson", "updatePersonTrust", "deletePerson"}

ListKinds == {"addList", "updateList", "deleteList"}

LacksRequired(a) ==
    \/ a.action \in MovieKinds /\ a.imdb_id = None
    \/ a.action \in {"removeRecommendation", "updateRecommendationVote"} /\ a.person = None
    \/ a.action = "updateStatus" /\ a.status = None
    \/ a.action \in PersonKinds /\ a.name = None
    \/ a.action \in ListKinds /\ a.id = None

NothingDone ==
    /\ db' = db
    /\ sess' = sess
    /\ aggregated_events' = aggregated_events
    /\ pc = "idle" => sent' = <<>>

C10_MissingFieldRejected ==
    [][Processed /\ LacksRequired(action') =>
          ~Resp.success /\ Resp.error # None /\ NothingDone]_vars

(* C10 amended: the movie kinds and addPerson reject a payload without     *)
(* imdb_id (person for removal and vote, status for updateStatus, name for *)
(* addPerson) with success=false and a "Missing ..." error, mutating and   *)
(* emitting nothing; updatePerson, updatePersonTrust and updateList        *)
(* without name or id fail with a not-found error, mutating nothing;       *)
(* deletePerson and deleteList without name or id succeed and do nothing;  *)
(* addList without id succeeds and creates the list under a generated id.  *)
C10_MissingFieldHandled ==
    [][Processed /\ LacksRequired(action') =>
          CASE action'.action \in MovieKinds \cup {"addPerson"} ->
                    /\ ~Resp.success /\ ~Resp.conflict
                    /\ Resp.error \in {"Missing imdb_id", "Missing imdb_id/person",
                                       "Missing imdb_id/status", "Missing person name"}
                    /\ NothingDone
            [] action'.action \in {"updatePerson", "updatePersonTrust", "updateList"} ->
                    /\ ~Resp.success /\ ~Resp.conflict
                    /\ Resp.error \in {"Person not found", "List not found"}
                    /\ NothingDone
            [] action'.action \in {"deletePerson", "deleteList"} ->
                    Resp.success /\ NothingDone
            [] action'.action = "addList" ->
                    /\ Resp.success
                    /\ GeneratedListId \notin DOMAIN db.lists
                    /\ GeneratedListId \in DOMAIN db'.lists]_vars

C10_Witness ==
    /\ results # <<>>
    /\ action.action = "updateStatus" /\ action.imdb_id # None /\ action.status = None
    /\ LastResult.error = "Missing imdb_id/status"

(* C11: an action whose kind is none of the supported kinds returns        *)
(* success=false with the unknown-action error and no conflict, changes    *)
(* neither the committed store nor the session, and adds no event to the   *)
(* request; sent alone as a single action, nothing is broadcast.           *)
SupportedKinds == MovieKinds \cup PersonKinds \cup ListKinds

C11_UnknownActionRejected ==
    [][Processed /\ action'.action \notin SupportedKinds =>
          /\ ~Resp.success /\ ~Resp.conflict
          /\ Resp.error = "Unknown action type: " \o action'.action
          /\ Resp.last_modified = NoTime
          /\ NothingDone]_vars

C11_Witness ==
    /\ pc = "batch" /\ Len(results) = 2
    /\ results[1].success
    /\ action.action = "renameList"
    /\ results[2].error = "Unknown action type: renameList"
    /\ aggregated_events = << <<"listUpdated", "L1">> >>

(* every row of rows is in seq exactly once, and nothing else is *)
ExactlyOnce(seq, rows) ==
    /\ Len(seq) = Len(rows)
    /\ \A i \in DOMAIN rows : \E j \in DOMAIN seq : seq[j] = rows[i]
    /\ \A i, j \in DOMAIN seq : seq[i] = seq[j] => i = j

Delta(req) == change_rows(tables, req.user_id, req.since)

(* C12: a device that pulls the pages for since=W at offsets 0, limit,     *)
(* 2*limit, ... over an unchanged store reaches has_more=false, and the    *)
(* pages it then holds contain every entity of the unpaginated delta for W *)
(* exactly once.                                                           *)
C12_FeedComplete ==
    /\ feedPc # "failed"
    /\ feedPc = "complete" => ExactlyOnce(pulled, Delta(feedReq))

(* The tables as _collect_changes finds them when the committed store of   *)
(* the sync processor is d and its user is user_id.                        *)
RECURSIVE SeqOf(_)
SeqOf(S) == IF S = {} THEN <<>> ELSE LET x == CHOOSE y \in S : TRUE IN <<x>> \o SeqOf(S \ {x})

StoreTables(d, user_id) ==
    [ movies |-> LET ids == SeqOf(DOMAIN d.movies)
                 IN [i \in DOMAIN ids |->
                        Row("movie", ids[i], user_id, d.movies[ids[i]].last_modified,
                            IF ids[i] \in DOMAIN d.status THEN d.status[ids[i]].status ELSE None)],
      people |-> LET ids == SeqOf(DOMAIN d.people)
                 IN [i \in DOMAIN ids |->
                        Row("person", ids[i], user_id, d.people[ids[i]].last_modified, None)],
      lists |-> LET ids == SeqOf(DOMAIN d.lists)
                IN [i \in DOMAIN ids |->
                        Row("list", ids[i], user_id, d.lists[ids[i]].last_modified, None)] ]

User == "u1"

(* the entities in the feed of store d for since=w, all pages *)
FeedOf(d, w) ==
    LET rows == change_rows(StoreTables(d, User), User, w)
    IN {<<rows[i].kind, rows[i].id>> : i \in DOMAIN rows}

(* what a client sees of an entity: <<>> when it does not exist *)
MovieView(d, m) == IF m \in DOMAIN d.movies THEN <<serialize_movie(d, m)>> ELSE <<>>

RowView(table, k) == IF k \in DOMAIN table THEN <<table[k]>> ELSE <<>>

(* the entities whose client-visible state differs between d and e *)
ChangedEntities(d, e) ==
    {<<"movie", m>> : m \in {x \in DOMAIN d.movies \cup DOMAIN e.movies :
                                MovieView(d, x) # MovieView(e, x)}}
    \cup {<<"person", p>> : p \in {x \in DOMAIN d.people \cup DOMAIN e.people :
                                RowView(d.people, x) # RowView(e.people, x)}}
    \cup {<<"list", l>> : l \in {x \in DOMAIN d.lists \cup DOMAIN e.lists :
                                RowView(d.lists, x) # RowView(e.lists, x)}}

(* C13: every MediaItem, Person and CustomList whose client-visible state  *)
(* a successful sync action changed is in the change feed of a device      *)
(* whose watermark is not later than the action: the feed for a since up   *)
(* to the server time of the action contains the entity.                   *)
C13_CatchUpComplete ==
    [][Processed /\ Resp.success =>
          ChangedEntities(db, db') \subseteq FeedOf(db', now)]_vars

(* C14: the merged sequence of a call is ordered by last_modified          *)
(* ascending, rows of equal last_modified by kind (movies, people, lists,  *)
(* the order in which the kinds are appended) and rows of equal            *)
(* last_modified and kind by identifier, whatever the order in which the   *)
(* store returned the rows.                                                *)
KindRank(kind) == CASE kind = "movie" -> 1 [] kind = "person" -> 2 [] kind = "list" -> 3

IdRanks == <<"L1", "L2", "ann", "bob", "tt1", "tt2">>

IdRank(id) == CHOOSE i \in DOMAIN IdRanks : IdRanks[i] = id

Precedes(r, q) ==
    \/ ChangedAt(r) < ChangedAt(q)
    \/ ChangedAt(r) = ChangedAt(q) /\ KindRank(r.kind) < KindRank(q.kind)
    \/ ChangedAt(r) = ChangedAt(q) /\ r.kind = q.kind /\ IdRank(r.id) < IdRank(q.id)

C14_DeterministicOrder ==
    feedPc # "idle" =>
        LET rows == Delta(feedReq)
        IN \A i, j \in DOMAIN rows : i < j => Precedes(rows[i], rows[j])

(* C15: a call for user_id and since matches exactly the rows of that user *)
(* in the three tables, all of them when since <= 0 and otherwise those    *)
(* with last_modified >= since, each once; the entities of a returned page *)
(* are among them.                                                         *)
RowsOf(seq) == {seq[i] : i \in DOMAIN seq}

AllRows(t) == RowsOf(t.movies) \cup RowsOf(t.people) \cup RowsOf(t.lists)

C15_SelectsOwnedSince ==
    feedPc # "idle" =>
        LET expected == {r \in AllRows(tables) :
                            /\ r.user_id = feedReq.user_id
                            /\ feedReq.since <= 0 \/ r.last_modified >= feedReq.since}
        IN /\ RowsOf(Delta(feedReq)) = expected
           /\ Len(Delta(feedReq)) = Cardinality(expected)
           /\ RowsOf(Entities(feedRes)) \subseteq expected

C15_Witness ==
    /\ feedPc = "returned"
    /\ feedReq.user_id = "u1" /\ feedReq.since = 2
    /\ ~feedRes.raised
    /\ \E i \in DOMAIN feedRes.movies : feedRes.movies[i].last_modified = 2
    /\ \E r \in AllRows(tables) : r.user_id = "u1" /\ r.last_modified = 1
    /\ \E r \in AllRows(tables) : r.user_id = "u2" /\ r.last_modified = 2

(* C16: a call with offset and limit over a merged sequence of length      *)
(* total returns has_more = (offset + limit < total), next_offset =        *)
(* offset + limit when has_more and null otherwise, and a page that holds  *)
(* the entities at positions [offset, offset + limit) of the sequence.     *)
C16_PageOfMergedSequence ==
    feedPc = "returned" =>
        LET total == Len(Delta(feedReq))
            page == Slice(Delta(feedReq), feedReq.offset, feedReq.limit)
            has_more == feedReq.offset + feedReq.limit < total
        IN /\ ~feedRes.raised
           /\ feedRes.has_more = has_more
           /\ feedRes.next_offset =
                 IF has_more THEN feedReq.offset + feedReq.limit ELSE NoOffset
           /\ ExactlyOnce(Entities(feedRes), page)

(* C17: every movie of the slice of a call whose status is deleted has its *)
(* id in the deleted_movie_ids of the response, once, and these hold no    *)
(* other id; a device that has pulled the pages of a watermark has         *)
(* received the id of every deleted movie of the delta exactly once.       *)
DeletedIn(rows) == SelectSeq(rows, LAMBDA r : r.kind = "movie" /\ r.status = "deleted")

C17_DeletedSurfaced ==
    /\ feedPc = "returned" =>
          ExactlyOnce(feedRes.deleted_movie_ids,
                      Ids(DeletedIn(Slice(Delta(feedReq), feedReq.offset, feedReq.limit))))
    /\ feedPc \in {"complete", "failed"} =>
          ExactlyOnce(pulledDeleted, Ids(DeletedIn(Delta(feedReq))))

(* C18: no call of the change feed, whatever its arguments and however     *)
(* many were made before, changes a row of the tables it reads or of the   *)
(* committed store, creates one or changes a last_modified; what a call    *)
(* returned is what the same call returns again on the store as it is.     *)
C18_FeedReadOnly ==
    /\ [][tables' = tables /\ db' = db /\ sess' = sess]_vars
    /\ [](feedPc \in {"returned", "complete", "failed"} =>
             /\ feedRes.raised = Call(feedReq).raised
             /\ Entities(feedRes) = Entities(Call(feedReq))
             /\ feedRes.deleted_movie_ids = Call(feedReq).deleted_movie_ids)

C18_Witness ==
    /\ feedPc = "complete"
    /\ feedReq.offset = 2 /\ feedReq.limit = 1
    /\ Len(pulled) = 3
    /\ pulledDeleted # <<>>

(* C19: after a successful sync action every entity whose client-visible   *)
(* state the action changed, and which still exists, has last_modified     *)
(* equal to the server time of the action, whatever the client timestamp   *)
(* and the payload are; and no step lowers the last_modified of an entity. *)
Exists(d, e) ==
    CASE e[1] = "movie" -> e[2] \in DOMAIN d.movies
      [] e[1] = "person" -> e[2] \in DOMAIN d.people
      [] e[1] = "list" -> e[2] \in DOMAIN d.lists

LastModified(d, e) ==
    CASE e[1] = "movie" -> d.movies[e[2]].last_modified
      [] e[1] = "person" -> d.people[e[2]].last_modified
      [] e[1] = "list" -> d.lists[e[2]].last_modified

EntitiesOf(d) ==
    {<<"movie", m>> : m \in DOMAIN d.movies}
    \cup {<<"person", q>> : q \in DOMAIN d.people}
    \cup {<<"list", l>> : l \in DOMAIN d.lists}

C19_ServerTimeAuthority ==
    /\ [][Processed /\ Resp.success =>
            \A e \in ChangedEntities(db, db') :
                Exists(db', e) => LastModified(db', e) = now]_vars
    /\ [][\A e \in EntitiesOf(db) \cap EntitiesOf(db') :
              LastModified(db', e) >= LastModified(db, e)]_vars

(* C20: in every state of the registry a websocket is registered under the *)
(* user it authenticated as only, and a broadcast for a user sends its     *)
(* message to websockets registered under that user only: no websocket     *)
(* ever holds a message of a broadcast for another user.                   *)
Broadcasted(h) == SelectSeq(sockets[h].inbox, LAMBDA m : m.type # "connected")

C20_FanOutIsolation ==
    /\ [](\A u \in DOMAIN connections : \A h \in connections[u] : sockets[h].user_id = u)
    /\ [](bc.active => \A h \in bc.todo : sockets[h].user_id = bc.user_id)
    /\ [](\A h \in Sockets : \A i \in DOMAIN Broadcasted(h) :
             Broadcasted(h)[i].to = sockets[h].user_id)
    /\ [][\A h \in Sockets :
             sockets'[h].inbox # sockets[h].inbox /\ sockets[h].state # "accepted" =>
                /\ bc.active /\ h \in bc.todo
                /\ sockets[h].user_id = bc.user_id
                /\ sockets'[h].inbox = Append(sockets[h].inbox, bc.message)]_vars

C20_Witness ==
    /\ ~bc.active /\ broadcasts = 1
    /\ \E a, b \in Sockets :
          /\ sockets[a].user_id = "u1" /\ sockets[b].user_id = "u2"
          /\ a \in Snapshot(connections, "u1") /\ b \in Snapshot(connections, "u2")
          /\ sockets[a].inbox = <<Greeting, Message("movieUpdated", "tt1", "u1")>>
          /\ sockets[b].inbox = <<Greeting>>
          /\ sockets[b].state = "open"

(* C21: a broadcast takes every handle registered for the user when it is  *)
(* called; each iteration takes one handle of the snapshot, delivers the   *)
(* message to it if it is open and otherwise removes it from the registry, *)
(* and goes on with the remaining handles; the broadcast returns only when *)
(* every handle of the snapshot has been tried, never by raising.          *)
Registered(h, user_id) == h \in Snapshot(connections, user_id)

C21_BroadcastSurvivesFailures ==
    /\ [][~bc.active /\ bc'.active =>
             bc'.todo = {h \in Sockets : Registered(h, bc'.user_id)}]_vars
    /\ [][bc.active /\ bc' # bc /\ bc.todo # {} =>
             \E h \in bc.todo :
                /\ bc' = [bc EXCEPT !.todo = bc.todo \ {h}]
                /\ IF sockets[h].state = "open"
                   THEN sockets'[h].inbox = Append(sockets[h].inbox, bc.message)
                   ELSE h \notin Snapshot(connections', bc.user_id)
                /\ \A g \in Sockets \ {h} :
                      /\ sockets'[g] = sockets[g]
                      /\ Registered(g, sockets[g].user_id) =>
                            g \in Snapshot(connections', sockets[g].user_id)]_vars
    /\ [][bc.active /\ ~bc'.active => bc.todo = {}]_vars

C21_Witness ==
    /\ ~bc.active /\ broadcasts = 1
    /\ \E a, b \in Sockets :
          /\ a # b
          /\ sockets[a].user_id = "u1" /\ sockets[b].user_id = "u1"
          /\ sockets[a].state = "lost" /\ sockets[a].disconnects = 1
          /\ ~Registered(a, "u1")
          /\ Registered(b, "u1")
          /\ sockets[b].inbox = <<Greeting, Message("peopleUpdated", None, "u1")>>

(* C22: every connection that has ended had SyncNotifier.disconnect called *)
(* exactly once and is no longer registered.  An endpoint has ended when   *)
(* its websocket is "ended" after a connect, or "lost" in connect.         *)
Ended(h) ==
    \/ sockets[h].state = "lost"
    \/ sockets[h].state = "ended" /\ sockets[h].user_id # None

C22_DisconnectExactlyOnce ==
    \A h \in Sockets :
       Ended(h) => sockets[h].disconnects = 1 /\ ~Registered(h, sockets[h].user_id)

(* C23: a websocket whose connect has returned is registered unless it was *)
(* disconnected since, holds exactly one greeting, and the greeting is the *)
(* first frame it holds: no broadcast frame precedes it.                   *)
Greetings(h) == SelectSeq(sockets[h].inbox, LAMBDA m : m.type = "connected")

Connected(h) ==
    \/ sockets[h].state \in {"open", "closed"}
    \/ sockets[h].state = "ended" /\ sockets[h].user_id # None

C23_GreetingFirst ==
    /\ [](\A h \in Sockets :
             /\ Connected(h) =>
                   Len(Greetings(h)) = 1 /\ sockets[h].inbox[1] = Greeting
             /\ ~Connected(h) => sockets[h].inbox = <<>>
             /\ sockets[h].state = "open" => Registered(h, sockets[h].user_id))
    /\ [][\A h \in Sockets :
             sockets[h].state = "accepted" /\ sockets'[h].state = "open" =>
                /\ ~Registered(h, sockets[h].user_id)
                /\ h \in Snapshot(connections', sockets[h].user_id)
                /\ sockets'[h].inbox = <<Greeting>>]_vars

C23_Witness ==
    \E a, b \in Sockets :
       /\ a # b
       /\ sockets[a].inbox = <<Greeting, Message("movieUpdated", "tt1", "u1")>>
       /\ sockets[b].user_id = "u1" /\ sockets[b].state = "open"
       /\ sockets[b].inbox = <<Greeting>>
       /\ bc.active /\ bc.todo = {}

(* C24: the registry never maps a user to an empty set, and a disconnect   *)
(* of a handle that is not registered for the user changes nothing.        *)
C24_NoEmptyEntry ==
    /\ [](\A u \in DOMAIN connections : connections[u] # {})
    /\ [](\A u \in Users : \A h \in Sockets :
             ~Registered(h, u) => disconnect(connections, u, h) = connections)
    /\ [][\A h \in Sockets :
             /\ sockets'[h].disconnects > sockets[h].disconnects
             /\ ~Registered(h, sockets[h].user_id)
             => connections' = connections]_vars

C24_Witness ==
    \E a, b \in Sockets :
       /\ sockets[a].user_id = "u1" /\ sockets[a].disconnects = 2
       /\ "u1" \notin DOMAIN connections
       /\ sockets[b].user_id = "u2" /\ Registered(b, "u2")

(* C26: no message of a broadcast is delivered to the websocket of the     *)
(* device whose request made the broadcast.                                *)
C26_NotToOrigin ==
    [][\A h \in Sockets :
          bc.active /\ sockets'[h].inbox = Append(sockets[h].inbox, bc.message) =>
             h # bc.origin]_vars

(* C25: while a batch is being processed nothing has been broadcast; the   *)
(* notifications of a request are sent in the one step that ends it, when  *)
(* every one of its actions has returned its result.                       *)
C25_BroadcastAfterLastAction ==
    /\ [](pc \in {"idle", "batch"} => sent = <<>>)
    /\ [][sent' # sent /\ sent' # <<>> =>
             /\ pc # "done" /\ pc' = "done"
             /\ Len(results') = n'
             /\ pc = "batch" => results' = results /\ Len(results) = n]_vars

C25_Witness ==
    /\ pc = "done" /\ n = 2 /\ Len(results) = 2
    /\ results[1].success /\ ~results[2].success
    /\ aggregated_events = << <<"movieAdded", "tt1">> >>
    /\ sent = << <<"movieAdded", "tt1">> >>

(* C27: what a request broadcasts holds no notification twice, holds       *)
(* exactly the (kind, id) pairs its successful actions emitted, with the   *)
(* ids of one kind in ascending order; peopleUpdated, which carries no id, *)
(* is therefore there at most once.                                        *)
Emitted(events) == {events[i] : i \in DOMAIN events}

(* the order of Python on the ids of the model *)
IdBefore(x, y) == <<x, y>> \in {<<"L1", "tt1">>, <<"L1", "uuid">>, <<"tt1", "uuid">>}

Collapsed(out, events) ==
    /\ \A i, j \in DOMAIN out : i # j => out[i] # out[j]
    /\ Emitted(out) = Emitted(events)
    /\ \A i, j \in DOMAIN out : i < j /\ out[i][1] = out[j][1] => IdBefore(out[i][2], out[j][2])
    /\ Cardinality({i \in DOMAIN out : out[i][1] = "peopleUpdated"}) <= 1

C27_EventsCollapsed ==
    /\ [](pc = "done" /\ aggregated_events # <<>> => Collapsed(sent, aggregated_events))
    /\ [][pc = "batch" /\ pc' = "done" => Collapsed(sent', aggregated_events)]_vars
    /\ [][pc = "idle" /\ pc' = "done" =>
             LET o == _process_sync_action(action', db, db, now)
             IN Collapsed(sent', IF o.resp.success THEN o.events ELSE <<>>)]_vars

C27_Witness ==
    /\ pc = "done"
    /\ aggregated_events = << <<"listUpdated", "uuid">>, <<"listUpdated", "L1">> >>
    /\ sent = << <<"listUpdated", "L1">>, <<"listUpdated", "uuid">> >>

(* C28: deleteList of an existing list L succeeds, sets every status that  *)
(* referenced L to toWatch without list, leaves every other status as it   *)
(* was, and removes L and nothing else from the lists; afterwards no       *)
(* status references L.                                                    *)
Referencing(d, l) == {m \in DOMAIN d.status : d.status[m].custom_list_id = l}

C28_DeleteListCascade ==
    [][pc = "idle" /\ pc' = "done" /\ action'.action = "deleteList"
       /\ action'.id \in DOMAIN db.lists =>
          LET L == action'.id
          IN /\ results'[1].success
             /\ DOMAIN db'.status = DOMAIN db.status
             /\ \A m \in Referencing(db, L) : db'.status[m] = MovieStatus("toWatch", None)
             /\ \A m \in DOMAIN db.status \ Referencing(db, L) : db'.status[m] = db.status[m]
             /\ DOMAIN db'.lists = DOMAIN db.lists \ {L}
             /\ \A l \in DOMAIN db'.lists : db'.lists[l] = db.lists[l]
             /\ Referencing(db', L) = {}]_vars

C28_Witness ==
    /\ pc = "done" /\ served = 1
    /\ action.action = "deleteList" /\ action.id = "L1"
    /\ DOMAIN db.lists = {GeneratedListId}
    /\ db.status["tt1"] = MovieStatus("toWatch", None)
    /\ db.status["tt2"] = MovieStatus("custom", GeneratedListId)

(* C29: every status whose state is not custom has no list reference.      *)
C29_ListRefOnlyWhenCustom ==
    \A m \in DOMAIN db.status :
       db.status[m].status # "custom" => db.status[m].custom_list_id = None

(* C30: every movie of the store has a status and every status a movie; a  *)
(* movie that appears in the store comes with its status, which is the     *)
(* default toWatch unless the action that created it also set it; no       *)
(* action removes the status of a movie that stays.                        *)
SetsStatus == {"markWatched", "updateStatus"}

C30_StatusWithMovie ==
    /\ [](DOMAIN db.status = DOMAIN db.movies /\ DOMAIN sess.status = DOMAIN sess.movies)
    /\ [][\A m \in DOMAIN db'.movies :
             /\ m \in DOMAIN db.status => m \in DOMAIN db'.status
             /\ m \notin DOMAIN db.movies =>
                   /\ m \in DOMAIN db'.status
                   /\ action'.action \notin SetsStatus =>
                         db'.status[m] = MovieStatus("toWatch", None)]_vars

C30_Witness ==
    /\ pc = "done" /\ action.action = "addRecommendation" /\ results[1].success
    /\ "tt1" \in DOMAIN db.movies
    /\ db.status["tt1"] = MovieStatus("toWatch", None)

(* one action was processed as a request of its own (POST /sync) *)
Single == Processed /\ pc = "idle"

(* what the session of the request that processes the next action sees *)
View == IF pc = "idle" THEN db ELSE sess

RecsOf(d, imdb, person) == {r \in d.recs : r.imdb_id = imdb /\ r.person = person}

(* C31: there is at most one Recommendation per movie and person, and an   *)
(* addRecommendation that is submitted again right after itself succeeds   *)
(* as an update: the store then holds exactly one Recommendation of that   *)
(* person for that movie.                                                  *)
C31_AddRecommendationIdempotent ==
    /\ [](\A m \in ImdbIds, p \in Names : Cardinality(RecsOf(db, m, p)) <= 1)
    /\ [][Single /\ action' = action /\ action.action = "addRecommendation"
          /\ action.imdb_id # None /\ action.person # None =>
             /\ Resp.success
             /\ Cardinality(RecsOf(db', action.imdb_id, action.person)) = 1]_vars

(* C32: a successful updateStatus emits one event for its item:            *)
(* movieDeleted for the state deleted, otherwise movieAdded when the       *)
(* action created the movie and movieUpdated when its session found it;    *)
(* to deleted on a movie last modified before the client timestamp it      *)
(* succeeds.                                                               *)
EventOf(a, view) ==
    IF a.status = "deleted" THEN <<"movieDeleted", a.imdb_id>>
    ELSE IF a.imdb_id \notin DOMAIN view.movies THEN <<"movieAdded", a.imdb_id>>
    ELSE <<"movieUpdated", a.imdb_id>>

Unchecked ==
    {"removeRecommendation", "addPerson", "updatePerson", "updatePersonTrust", "deletePerson",
     "addList", "updateList", "deleteList"}

C33_UncheckedKinds ==
    /\ [][Processed /\ action'.action \in Unchecked => ~Resp.conflict]_vars
    /\ [][Single /\ action'.action = "removeRecommendation" /\ Resp.success =>
             /\ RecsOf(db', action'.imdb_id, action'.person) = {}
             /\ sent' = IF RecsOf(db, action'.imdb_id, action'.person) # {}
                           /\ action'.imdb_id \in DOMAIN db.movies
                        THEN << <<"movieUpdated", action'.imdb_id>> >> ELSE <<>>]_vars

(* C34: addPerson with an unused name succeeds, creates the Person and     *)
(* emits peopleUpdated; with a name in use it succeeds, changes nothing    *)
(* and emits nothing.                                                      *)
C34_AddPersonCreatesOnce ==
    [][Single /\ action'.action = "addPerson" /\ action'.name # None =>
          /\ Resp.success
          /\ IF action'.name \in DOMAIN db.people
             THEN db' = db /\ sent' = <<>>
             ELSE /\ DOMAIN db'.people = DOMAIN db.people \cup {action'.name}
                  /\ sent' = << <<"peopleUpdated", None>> >>]_vars

(* C35: every Recommendation names a Person and a movie of the store;      *)
(* deletePerson leaves no Recommendation of the person; after an           *)
(* addRecommendation that names a person without a row, the Person is in   *)
(* the store.                                                              *)
C35_RecommendationsReferToRows ==
    /\ [](\A r \in db.recs : r.person \in DOMAIN db.people /\ r.imdb_id \in DOMAIN db.movies)
    /\ [][Single /\ action'.action = "deletePerson" /\ action'.name \in DOMAIN db.people =>
             {r \in db'.recs : r.person = action'.name} = {}]_vars
    /\ [][Single /\ action'.action = "addRecommendation" /\ action'.imdb_id # None
          /\ action'.person # None /\ action'.person \notin DOMAIN db.people =>
             action'.person \in DOMAIN db'.people]_vars

(* C36: markWatched and updateStatus with a valid payload on a movie the   *)
(* session does not see succeed whatever the client timestamp: the movie   *)
(* and its status are in the store afterwards and the event is movieAdded, *)
(* or movieDeleted for updateStatus to deleted.                            *)
Lazy == {"markWatched", "updateStatus"}

ValidPayload(a) ==
    IF a.action = "markWatched" THEN check_rating_range(a.rating)
    ELSE a.status # None /\ check_status_values(a.status)

C36_LazyCreationSucceeds ==
    [][Processed /\ action'.action \in Lazy /\ action'.imdb_id # None
       /\ action'.imdb_id \notin DOMAIN View.movies /\ ValidPayload(action') =>
          /\ Resp.success
          /\ action'.imdb_id \in DOMAIN db'.movies \cap DOMAIN db'.status
          /\ pc = "idle" =>
                sent' = << <<IF action'.status = "deleted" THEN "movieDeleted" ELSE "movieAdded",
                             action'.imdb_id>> >>]_vars

(* C37: in a batch, a conflict-checked action on a movie that directly     *)
(* follows a successful conflict-checked action of the batch on the same   *)
(* movie, with the same or a later client timestamp, does not answer       *)
(* conflict.                                                               *)
C37_BatchNotSelfConflicting ==
    [][Processed /\ pc = "batch" /\ results # <<>> /\ LastResult.success
       /\ action.action \in Lazy /\ action'.action \in Lazy
       /\ action.imdb_id # None /\ action'.imdb_id = action.imdb_id
       /\ action'.timestamp >= action.timestamp =>
          ~Resp.conflict]_vars

(* C38: an action that does not succeed adds no event to what its request  *)
(* broadcasts, and a request none of whose actions succeeded broadcasts    *)
(* nothing.                                                                *)
C38_OnlySuccessPushes ==
    /\ [][Processed /\ ~Resp.success =>
             IF pc = "idle" THEN sent' = <<>>
             ELSE aggregated_events' = aggregated_events]_vars
    /\ [](pc = "done" /\ (\A i \in DOMAIN results : ~results[i].success) => sent = <<>>)

C38_Witness ==
    /\ pc = "done" /\ n = 2 /\ Len(results) = 2
    /\ results[1].conflict
    /\ ~results[2].success /\ ~results[2].conflict
    /\ aggregated_events = <<>> /\ sent = <<>>

(* C39: connects and disconnects of other flows between the sends of a     *)
(* broadcast leave its iteration as it is; the broadcast takes the handles *)
(* registered when it was called one by one, each once, delivers the       *)
(* message to each of them that is open when its turn comes, and ends      *)
(* only when all of them have been taken.                                  *)
C39_BroadcastUnderInterleaving ==
    /\ [][~bc.active /\ bc'.active =>
             bc'.todo = {h \in Sockets : Registered(h, bc'.user_id)}]_vars
    /\ [][bc.active /\ bc' # bc =>
             \/ bc.todo = {} /\ bc' = NoBroadcast
             \/ \E h \in bc.todo : bc' = [bc EXCEPT !.todo = @ \ {h}]]_vars
    /\ [][\A h \in Sockets :
             /\ bc.active /\ h \in bc.todo /\ h \notin bc'.todo /\ sockets[h].state = "open" =>
                   sockets'[h].inbox = Append(sockets[h].inbox, bc.message)
             /\ sockets'[h].inbox # sockets[h].inbox /\ sockets[h].state # "accepted" =>
                   bc.active /\ h \in bc.todo /\ h \notin bc'.todo]_vars

C39_Witness ==
    /\ bc.active /\ bc.todo = {}
    /\ \E a, b \in Sockets :
          /\ sockets[a].user_id = bc.user_id /\ sockets[b].user_id = bc.user_id
          /\ sockets[a].state = "open" /\ Registered(a, bc.user_id)
          /\ sockets[a].inbox = <<Greeting, bc.message>>
          /\ sockets[b].state = "ended" /\ sockets[b].disconnects = 2
          /\ sockets[b].inbox = <<Greeting>>

(* C40: a broadcast makes no send to a handle for which disconnect has     *)
(* been called.                                                            *)
C40_NoSendAfterDisconnect ==
    [][\A h \in Sockets :
          bc.active /\ h \in bc.todo /\ h \notin bc'.todo => sockets[h].disconnects = 0]_vars

====
